---- MODULE Spec2Model ----
(***************************************************************************)
(* Model of templates/api/fastapi-python-api/app/main.py: the application  *)
(* built by create_app() (middleware stack, health and item routes,        *)
(* exception handler, instrumentation middleware, startup and shutdown     *)
(* hooks), the Database placeholder and the module-level handle _db.  The  *)
(* service-root and /metrics routes, the settings loader and the logging   *)
(* configuration are not modelled.                                         *)
(*                                                                         *)
(* Execution model.  Every coroutine of the file runs on one asyncio event *)
(* loop, so a task is descheduled only where an awaited call really        *)
(* suspends.  Database.connect, Database.disconnect and                    *)
(* Database.is_healthy contain no await expression: awaiting them runs     *)
(* their body to completion without returning to the event loop.  A        *)
(* request is suspended where the instrumentation middleware awaits        *)
(* call_next (the inner application runs as a task of its own) and where   *)
(* the response is handed back; it therefore advances in three steps:      *)
(* Receive, InnerApp, Complete.  The hooks have no suspension point.       *)
(* A route either returns or raises an exception derived from Exception    *)
(* (the class the handler is registered for); cancellation of a request    *)
(* task is not modelled.                                                   *)
(***************************************************************************)
EXTENDS Integers, Sequences, FiniteSets, TLC

VARIABLES settings, _db, databases, connect_calls, disconnect_calls,
          REQUEST_COUNT, REQUEST_LATENCY, req, received, startup, shutdown

vars == <<settings, _db, databases, connect_calls, disconnect_calls,
          REQUEST_COUNT, REQUEST_LATENCY, req, received, startup, shutdown>>

(***************************************************************************)
(* Bounds                                                                  *)
(***************************************************************************)
\* number of requests received in one behaviour; all of them may be in
\* flight at the same time
MaxRequests == 2

Tasks == 1..MaxRequests

(***************************************************************************)
(* Inputs                                                                  *)
(***************************************************************************)
None == 0

Methods == {"GET", "POST"}
Hosts == {"example.com", "evil.test"}
\* str(exc) of an exception raised inside a route
NoFault == "none"
ExcTexts == {"boom", "ping failed"}
\* the {item_id} path segment, as its characters
ItemParams == {<<"7">>, <<"4", "2">>}
ItemsPrefix == "/api/v1/items/"
Paths == {<<"/health">>, <<"/live">>, <<"/ready">>, <<"/missing">>}
         \cup {<<ItemsPrefix, p>> : p \in ItemParams}
Statuses == {200, 400, 404, 405, 500, 503}

\* The requests sent: every GET from an allowed host; a route that raises
\* (routes calling into the Database extension points); a POST; a request
\* carrying a Host header outside TRUSTED_HOSTS.
Requests ==
  {q \in [method : Methods, path : Paths, host : Hosts,
          fault : {NoFault} \cup ExcTexts] :
     /\ q.fault = "boom" =>
          /\ q.method = "GET" /\ q.host = "example.com"
          /\ q.path = <<ItemsPrefix, <<"4", "2">>>>
     /\ q.fault = "ping failed" =>
          /\ q.method = "GET" /\ q.host = "example.com"
          /\ q.path = <<"/ready">>
     /\ q.method = "POST" => q.path = <<"/live">> /\ q.host = "example.com"
     /\ q.host = "evil.test" => q.path = <<"/health">>}

(***************************************************************************)
(* Database placeholder (objects live in the heap `databases`; a handle is *)
(* an index into it, None when absent)                                     *)
(***************************************************************************)
\* Database.__init__: a new object with connected = False
Database(dbs) == Append(dbs, [connected |-> FALSE])

\* connect() performing real I/O: the caller is suspended inside it
connect_suspends_io == TRUE

\* whether `await db.connect()` returns control to the event loop before
\* the flag is set: the body of connect() has no await expression
connect_suspends == FALSE

connect(dbs, h) == [dbs EXCEPT ![h].connected = TRUE]

disconnect(dbs, h) == [dbs EXCEPT ![h].connected = FALSE]

\* a health check that does not look at the flag
is_healthy_always(dbs, h) == TRUE

is_healthy(dbs, h) == dbs[h].connected

\* get_db without the `if _db is None` test
get_db_unconditional(w) ==
  LET dbs == Database(w.databases)
      h == Len(dbs)
  IN [w |-> [_db |-> h, databases |-> connect(dbs, h),
             connect_calls |-> w.connect_calls + 1],
      yielded |-> h,
      suspended |-> FALSE]

\* lines 151-153: the shared slot w = [_db, databases, connect_calls] after
\* get_db ran up to its yield (or up to the suspension inside connect), and
\* the handle it yields
get_db(w) ==
  IF w._db = None
  THEN LET dbs == Database(w.databases)
           h == Len(dbs)
       IN [w |-> [_db |-> h,
                  databases |-> IF connect_suspends THEN dbs ELSE connect(dbs, h),
                  connect_calls |-> w.connect_calls + 1],
           yielded |-> h,
           suspended |-> connect_suspends]
  ELSE [w |-> w, yielded |-> w._db, suspended |-> FALSE]

(***************************************************************************)
(* create_app: middleware stack                                            *)
(***************************************************************************)
\* a stack in which the first middleware added is the outermost
add_middleware_append(stack, m) == Append(stack, m)

\* Starlette's add_middleware inserts at the front of user_middleware, and
\* the stack is built so that user_middleware[1] is the outermost layer
add_middleware(stack, m) == <<m>> \o stack

origins(s) ==
  IF s.CORS_ORIGINS # <<>> THEN s.CORS_ORIGINS
  ELSE IF s.DEBUG THEN <<"*">> ELSE <<>>

create_app(s) ==
  LET m0 == <<>>
      m1 == IF origins(s) # <<>> THEN add_middleware(m0, "CORSMiddleware") ELSE m0
      m2 == add_middleware(m1, "GZipMiddleware")
      m3 == IF ~s.DEBUG THEN add_middleware(m2, "TrustedHostMiddleware") ELSE m2
      m4 == add_middleware(m3, "add_metrics_and_logging")
  IN m4

user_middleware == create_app(settings)

(***************************************************************************)
(* Responses                                                               *)
(***************************************************************************)
NoResponse == [status |-> 0, body |-> [kind |-> "none"]]

JSONResponse(code, content) == [status |-> code, body |-> content]

PlainTextResponse(text) == [status |-> 200, body |-> [kind |-> "text", text |-> text]]

\* an HTTPException is turned into a response by the framework's exception
\* middleware, which sits inside the user middleware
HTTPException(code, detail) ==
  [status |-> code, body |-> [kind |-> "detail", detail |-> detail]]

(***************************************************************************)
(* Middleware layers, on the way in.  q is the request's task state.       *)
(***************************************************************************)
call_next(q, name) == [q EXCEPT !.layer = @ + 1, !.stages = Append(@, name)]

\* lines 265-269: start, endpoint and method are taken, then call_next is
\* awaited: the inner application runs as a task of its own
add_metrics_and_logging_enter(q, now) ==
  [call_next(q, "add_metrics_and_logging") EXCEPT !.start = now, !.pc = "awaiting"]

host_allowed(allowed_hosts, host) ==
  \E i \in 1..Len(allowed_hosts) : allowed_hosts[i] = "*" \/ allowed_hosts[i] = host

TrustedHostMiddleware(s, q) ==
  IF host_allowed(s.TRUSTED_HOSTS, q.host)
  THEN call_next(q, "TrustedHostMiddleware")
  ELSE [q EXCEPT !.stages = Append(@, "TrustedHostMiddleware"),
                 !.response = [status |-> 400,
                               body |-> [kind |-> "text",
                                         text |-> "Invalid host header"]],
                 !.pc = "unwind"]

GZipMiddleware(q) == call_next(q, "GZipMiddleware")

CORSMiddleware(q) == call_next(q, "CORSMiddleware")

\* the layers run one after the other until one suspends or answers, or the
\* router is reached
RECURSIVE run_layers(_, _, _, _)
run_layers(s, stack, q, now) ==
  IF q.pc # "stack" THEN q
  ELSE IF q.layer > Len(stack) THEN [q EXCEPT !.pc = "route"]
  ELSE LET name == stack[q.layer]
       IN CASE name = "add_metrics_and_logging" ->
                 run_layers(s, stack, add_metrics_and_logging_enter(q, now), now)
            [] name = "TrustedHostMiddleware" ->
                 run_layers(s, stack, TrustedHostMiddleware(s, q), now)
            [] name = "GZipMiddleware" -> run_layers(s, stack, GZipMiddleware(q), now)
            [] name = "CORSMiddleware" -> run_layers(s, stack, CORSMiddleware(q), now)

(***************************************************************************)
(* Routing                                                                 *)
(***************************************************************************)
route_of(path) ==
  IF Len(path) = 2 /\ path[1] = ItemsPrefix /\ path[2] # <<>> THEN "get_item"
  ELSE IF path = <<"/health">> THEN "health"
  ELSE IF path = <<"/live">> THEN "live"
  ELSE IF path = <<"/ready">> THEN "ready"
  ELSE "none"

\* /live declared with the get_db dependency as well
depends_on_db_all(route) == route \in {"get_item", "health", "ready", "live"}

\* routes declared with db: Database = Depends(get_db)
depends_on_db(route) == route \in {"get_item", "health", "ready"}

\* int() of the path segment
DigitVal(c) ==
  CASE c = "0" -> 0 [] c = "1" -> 1 [] c = "2" -> 2 [] c = "3" -> 3
    [] c = "4" -> 4 [] c = "5" -> 5 [] c = "6" -> 6 [] c = "7" -> 7
    [] c = "8" -> 8 [] c = "9" -> 9

RECURSIVE ParseInt(_)
ParseInt(cs) ==
  IF cs = <<>> THEN 0
  ELSE 10 * ParseInt(SubSeq(cs, 1, Len(cs) - 1)) + DigitVal(cs[Len(cs)])

\* every route is declared with .get
Router(q) ==
  IF q.pc # "route" THEN q
  ELSE IF route_of(q.path) = "none"
  THEN [q EXCEPT !.response = HTTPException(404, "Not Found"), !.pc = "unwind"]
  ELSE IF q.method # "GET"
  THEN [q EXCEPT !.response = HTTPException(405, "Method Not Allowed"),
                 !.pc = "unwind"]
  ELSE [q EXCEPT !.stages = Append(@, "route"),
                 !.pc = IF depends_on_db(route_of(q.path)) THEN "deps" ELSE "endpoint"]

(***************************************************************************)
(* Route handlers: the response each returns                               *)
(***************************************************************************)
\* get_item without the 503 branch
get_item_unchecked(item_id, dbs, db) ==
  JSONResponse(200, [kind |-> "item", item_id |-> item_id,
                     name |-> "example", db |-> is_healthy(dbs, db)])

get_item(item_id, dbs, db) ==
  LET healthy == is_healthy(dbs, db)
  IN IF ~healthy THEN HTTPException(503, "database unavailable")
     ELSE JSONResponse(200, [kind |-> "item", item_id |-> item_id,
                             name |-> "example", db |-> healthy])

health(dbs, db) ==
  LET db_ok == is_healthy(dbs, db)
      status == IF db_ok THEN "ok" ELSE "fail"
      code == IF db_ok THEN 200 ELSE 503
  IN JSONResponse(code, [kind |-> "health", status |-> status,
                         database |-> IF db_ok THEN "ok" ELSE "unhealthy"])

live == PlainTextResponse("alive")

ready(dbs, db) ==
  LET ok == is_healthy(dbs, db)
  IN IF ok THEN PlainTextResponse("ready") ELSE HTTPException(503, "not ready")

\* a handler that always echoes str(exc)
generic_exception_handler_echo(s, exc) ==
  JSONResponse(500, [kind |-> "detail", detail |-> exc])

generic_exception_handler(s, exc) ==
  IF s.DEBUG THEN JSONResponse(500, [kind |-> "detail", detail |-> exc])
  ELSE JSONResponse(500, [kind |-> "detail", detail |-> "Internal Server Error"])

\* dependency resolution of the matched route
Dependencies(w, q) ==
  IF q.pc = "deps"
  THEN LET g == get_db(w)
       IN [w |-> g.w,
           q |-> [q EXCEPT !.db = g.yielded,
                           !.pc = IF g.suspended THEN "connecting" ELSE "endpoint"]]
  ELSE IF q.pc = "connecting"
  THEN [w |-> [w EXCEPT !.databases = connect(@, q.db)],
        q |-> [q EXCEPT !.pc = "endpoint"]]
  ELSE [w |-> w, q |-> q]

\* the route function runs; q.fault is the exception it raises, if any
Endpoint(dbs, q) ==
  LET rt == route_of(q.path)
  IN IF q.pc # "endpoint" THEN q
     ELSE IF q.fault # NoFault THEN [q EXCEPT !.exc = q.fault, !.pc = "unwind"]
     ELSE [q EXCEPT !.pc = "unwind",
                    !.response =
                      CASE rt = "get_item" -> get_item(ParseInt(q.path[2]), dbs, q.db)
                        [] rt = "health" -> health(dbs, q.db)
                        [] rt = "live" -> live
                        [] rt = "ready" -> ready(dbs, q.db)]

(***************************************************************************)
(* Instrumentation middleware, on the way out (except / finally)           *)
(***************************************************************************)
entered(q) ==
  \E i \in 1..Len(q.stages) : q.stages[i] = "add_metrics_and_logging"

\* an except branch that leaves status_code at a default of 200
status_code_of_default(q) == IF q.exc # NoFault THEN 200 ELSE q.response.status

\* lines 268-274: status_code is taken from the response, or set to 500 in
\* the except branch
status_code_of(q) == IF q.exc # NoFault THEN 500 ELSE q.response.status

\* an except branch that does not re-raise
reraise_swallowed(exc) == NoFault

\* line 274: a bare raise re-raises the exception being handled
reraise(exc) == exc

\* Counter.labels(...).inc()
inc(counter, label) == [counter EXCEPT ![label] = @ + 1]

\* Gauge.labels(endpoint).set(latency)
set(gauge, endpoint, latency) == [gauge EXCEPT ![endpoint] = latency]

\* lines 275-289: the finally block; recording cannot fail for these labels
add_metrics_and_logging_exit(q) ==
  [q EXCEPT !.status_code = status_code_of(q),
            !.recorded = TRUE,
            !.logged = TRUE,
            !.exc = reraise(q.exc)]

\* the handler registered for Exception runs in the outermost layer, then
\* the response leaves the application
ServerErrorMiddleware(s, q) ==
  IF q.exc # NoFault
  THEN [q EXCEPT !.handled = q.exc,
                 !.response = generic_exception_handler(s, q.exc),
                 !.pc = "done"]
  ELSE [q EXCEPT !.pc = "done"]

(***************************************************************************)
(* State                                                                   *)
(***************************************************************************)
Blank ==
  [pc |-> "idle", method |-> "GET", path |-> <<"/live">>, host |-> "example.com",
   fault |-> NoFault, layer |-> 0, stages |-> <<>>, start |-> 0, db |-> None,
   status_code |-> 0, response |-> NoResponse, exc |-> NoFault,
   handled |-> NoFault, recorded |-> FALSE, logged |-> FALSE]

\* the deployments: the defaults (no CORS origins, TRUSTED_HOSTS unset and
\* read as "*"), a production deployment with both configured, and debug
\* mode (TRUSTED_HOSTS is not read)
SettingsSet ==
  {[DEBUG |-> FALSE, CORS_ORIGINS |-> <<>>, TRUSTED_HOSTS |-> <<"*">>],
   [DEBUG |-> FALSE, CORS_ORIGINS |-> <<"https://app.example.com">>,
    TRUSTED_HOSTS |-> <<"example.com">>],
   [DEBUG |-> TRUE, CORS_ORIGINS |-> <<>>, TRUSTED_HOSTS |-> <<"*">>]}

Init ==
  /\ settings \in SettingsSet
  /\ _db = None
  /\ databases = <<>>
  /\ connect_calls = 0
  /\ disconnect_calls = 0
  /\ REQUEST_COUNT = [l \in Methods \X Paths \X Statuses |-> 0]
  /\ REQUEST_LATENCY = [p \in Paths |-> 0]
  /\ req = [t \in Tasks |-> Blank]
  /\ received = 0
  /\ startup = "idle"
  /\ shutdown = "idle"

\* time.time(): the clock ticks with every arrival
time == received

lifecycle == <<_db, databases, connect_calls, disconnect_calls>>
instruments == <<REQUEST_COUNT, REQUEST_LATENCY>>
hooks == <<startup, shutdown>>

(***************************************************************************)
(* A request arrives and runs up to the first suspension                   *)
(***************************************************************************)
Receive(t) ==
  /\ t = received + 1
  /\ req[t].pc = "idle"
  /\ \E i \in Requests :
       req' = [req EXCEPT ![t] =
                 run_layers(settings, user_middleware,
                            [Blank EXCEPT !.pc = "stack", !.method = i.method,
                                          !.path = i.path, !.host = i.host,
                                          !.fault = i.fault, !.layer = 1],
                            time)]
  /\ received' = received + 1
  /\ UNCHANGED <<settings, lifecycle, instruments, hooks>>

(***************************************************************************)
(* The inner application: remaining layers, router, dependencies, route    *)
(***************************************************************************)
InnerApp(t) ==
  LET q == req[t]
      w == [_db |-> _db, databases |-> databases, connect_calls |-> connect_calls]
      a == IF q.pc = "connecting" THEN q
           ELSE Router(run_layers(settings, user_middleware, [q EXCEPT !.pc = "stack"], time))
      b == Dependencies(w, a)
      c == Endpoint(b.w.databases, b.q)
  IN /\ q.pc \in {"awaiting", "connecting"}
     /\ req' = [req EXCEPT ![t] = c]
     /\ _db' = b.w._db
     /\ databases' = b.w.databases
     /\ connect_calls' = b.w.connect_calls
     /\ UNCHANGED <<settings, disconnect_calls, instruments, hooks, received>>

(***************************************************************************)
(* The response (or the exception) travels back out                        *)
(***************************************************************************)
Complete(t) ==
  LET q == req[t]
  IN /\ q.pc = "unwind"
     /\ IF entered(q)
        THEN /\ REQUEST_COUNT' =
                  inc(REQUEST_COUNT, <<q.method, q.path, status_code_of(q)>>)
             /\ REQUEST_LATENCY' = set(REQUEST_LATENCY, q.path, time - q.start)
             /\ req' = [req EXCEPT ![t] =
                          ServerErrorMiddleware(settings, add_metrics_and_logging_exit(q))]
        ELSE /\ req' = [req EXCEPT ![t] = ServerErrorMiddleware(settings, q)]
             /\ UNCHANGED instruments
     /\ UNCHANGED <<settings, lifecycle, hooks, received>>

(***************************************************************************)
(* Startup / shutdown hooks                                                *)
(***************************************************************************)
on_startup ==
  /\ startup # "done"
  /\ IF startup = "connecting"
     THEN /\ databases' = connect(databases, _db)
          /\ startup' = "done"
          /\ UNCHANGED <<_db, connect_calls>>
     ELSE /\ shutdown = "idle"
          /\ IF _db = None
             THEN LET dbs == Database(databases)
                      h == Len(dbs)
                  IN /\ _db' = h
                     /\ connect_calls' = connect_calls + 1
                     /\ IF connect_suspends
                        THEN databases' = dbs /\ startup' = "connecting"
                        ELSE databases' = connect(dbs, h) /\ startup' = "done"
             ELSE /\ startup' = "done"
                  /\ UNCHANGED <<_db, databases, connect_calls>>
  /\ UNCHANGED <<settings, disconnect_calls, instruments, req, received, shutdown>>

\* shutdown calling _db.disconnect() without the guard
shutdown_has_db_unguarded(db) == TRUE

\* line 316: the guard in front of _db.disconnect()
shutdown_has_db(db) == db # None

on_shutdown ==
  /\ shutdown = "idle"
  /\ IF shutdown_has_db(_db)
     THEN IF _db = None
          THEN \* attribute access on None raises
               /\ shutdown' = "error"
               /\ UNCHANGED <<databases, disconnect_calls>>
          ELSE /\ databases' = disconnect(databases, _db)
               /\ disconnect_calls' = disconnect_calls + 1
               /\ shutdown' = "done"
     ELSE /\ shutdown' = "done"
          /\ UNCHANGED <<databases, disconnect_calls>>
  /\ UNCHANGED <<settings, _db, connect_calls, instruments, req, received, startup>>

(***************************************************************************)
(* Specification                                                           *)
(***************************************************************************)
Next ==
  \/ \E t \in Tasks : Receive(t)
  \/ \E t \in Tasks : InnerApp(t)
  \/ \E t \in Tasks : Complete(t)
  \/ on_startup
  \/ on_shutdown

Spec == Init /\ [][Next]_vars

(***************************************************************************)
(* Properties                                                              *)
(***************************************************************************)
Reached(q, stage) == \E i \in 1..Len(q.stages) : q.stages[i] = stage

IsPrefix(a, b) == Len(a) <= Len(b) /\ \A i \in 1..Len(a) : a[i] = b[i]

\* the shared handle is present and in state Connected
DbConnected == _db # None /\ databases[_db].connected

\* task t's route function runs to its return in this step
RouteReturns(t, rt) ==
  /\ req[t].pc \in {"awaiting", "connecting"}
  /\ req'[t].pc = "unwind"
  /\ Reached(req'[t], "route")
  /\ route_of(req[t].path) = rt
  /\ req'[t].exc = NoFault

\* task t's response leaves the application in this step, no exception
\* having been raised
ResponseLeaves(t) ==
  req[t].pc = "unwind" /\ req'[t].pc = "done" /\ req[t].exc = NoFault

\* C1: a GET /health or GET /ready whose handler performs its is_healthy()
\* check answers 200 if the shared handle is Connected at that moment and
\* 503 otherwise, and that answer is the one sent.
C1_HealthReadyStatus ==
  [][\A t \in Tasks :
       /\ (RouteReturns(t, "health") \/ RouteReturns(t, "ready")) =>
            req'[t].response.status = IF DbConnected' THEN 200 ELSE 503
       /\ ResponseLeaves(t) => req'[t].response = req[t].response]_vars

C1_Witness ==
  \E t, u \in Tasks :
    /\ req[t].pc = "done" /\ req[t].path = <<"/health">>
    /\ req[t].response.status = 200 /\ req[t].db # None
    /\ req[u].pc = "done" /\ req[u].path = <<"/ready">>
    /\ req[u].response.status = 503 /\ req[u].db # None

\* C2: a GET /live that reaches its route answers 200 "alive" whatever the
\* state of the handle, and handling it neither receives, constructs nor
\* changes the handle.
C2_LiveIndependent ==
  [][\A t \in Tasks :
       /\ RouteReturns(t, "live") =>
            /\ req'[t].response = [status |-> 200,
                                   body |-> [kind |-> "text", text |-> "alive"]]
            /\ req'[t].db = None
            /\ <<_db, databases, connect_calls, disconnect_calls>>' =
                 <<_db, databases, connect_calls, disconnect_calls>>
       /\ (ResponseLeaves(t) /\ route_of(req[t].path) = "live") =>
            /\ req'[t].response = req[t].response
            /\ <<_db, databases>>' = <<_db, databases>>]_vars

C2_Witness ==
  \E t, u \in Tasks :
    /\ req[t].pc = "done" /\ req[t].path = <<"/live">> /\ req[t].method = "GET"
    /\ req[t].response.status = 200 /\ req[t].response.body.text = "alive"
    /\ req[u].pc = "done" /\ req[u].path = <<"/live">> /\ req[u].method = "GET"
    /\ req[u].response.status = 200 /\ t # u
    /\ _db = None /\ shutdown = "done"

\* C3: when a request has been handled, the counter of its (method, path,
\* status) labels is exactly 1 higher and no other counter moved; status is
\* the status of the response sent, 500 when the route raised.
C3_CounterIncrement ==
  [][\A t \in Tasks :
       (req[t].pc = "unwind" /\ req'[t].pc = "done") =>
         /\ REQUEST_COUNT' =
              [REQUEST_COUNT EXCEPT
                 ![<<req[t].method, req[t].path, req'[t].response.status>>] = @ + 1]
         /\ req'[t].response.status \in Statuses
         /\ req[t].exc # NoFault => req'[t].response.status = 500]_vars

C3_Witness ==
  \E t, u \in Tasks :
    /\ req[t].pc = "done" /\ req[t].fault # NoFault
    /\ REQUEST_COUNT[<<"GET", req[t].path, 500>>] = 1
    /\ req[u].pc = "done" /\ req[u].response.status = 503
    /\ REQUEST_COUNT[<<"GET", req[u].path, 503>>] = 1

\* C4: when a route raised, the answer is 500; with debug off its body is
\* exactly {"detail": "Internal Server Error"} and does not carry the
\* exception text; with debug on the body carries the exception text.
C4_GenericError ==
  \A t \in Tasks :
    (req[t].pc = "done" /\ req[t].fault # NoFault) =>
      /\ req[t].response.status = 500
      /\ ~settings.DEBUG =>
           /\ req[t].response.body =
                [kind |-> "detail", detail |-> "Internal Server Error"]
           /\ req[t].response.body.detail # req[t].fault
      /\ settings.DEBUG =>
           req[t].response.body = [kind |-> "detail", detail |-> req[t].fault]

C4_Witness ==
  \E t, u \in Tasks :
    /\ req[t].pc = "done" /\ req[t].fault = "boom"
    /\ req[u].pc = "done" /\ req[u].fault = "ping failed"
    /\ ~settings.DEBUG

\* the integer written by the characters of an {item_id} segment
C5_Id(p) == IF p = <<"7">> THEN 7 ELSE 42

\* C5: GET /api/v1/items/{id} answers 503 "database unavailable" when the
\* handle is not Connected at the handler's check and 200 with
\* {item_id: id, name: "example", db: true} when it is; no 200 body has db
\* false.
C5_GetItem ==
  [][\A t \in Tasks :
       /\ RouteReturns(t, "get_item") =>
            req'[t].response =
              IF DbConnected'
              THEN [status |-> 200,
                    body |-> [kind |-> "item", item_id |-> C5_Id(req[t].path[2]),
                              name |-> "example", db |-> TRUE]]
              ELSE [status |-> 503,
                    body |-> [kind |-> "detail", detail |-> "database unavailable"]]
       /\ ResponseLeaves(t) => req'[t].response = req[t].response
       /\ (req'[t].response.status = 200 /\ req'[t].response.body.kind = "item") =>
            req'[t].response.body.db]_vars

C5_Witness ==
  \E t, u \in Tasks :
    /\ req[t].pc = "done" /\ req[t].path = <<ItemsPrefix, <<"4", "2">>>>
    /\ req[t].response.status = 200 /\ req[t].response.body.item_id = 42
    /\ req[u].pc = "done" /\ req[u].path = <<ItemsPrefix, <<"7">>>>
    /\ req[u].response.status = 503

\* C6: every request that has been handled was recorded and logged by the
\* instrumentation middleware, and when its route raised, the exception the
\* generic handler received is the one the route raised, and the answer is
\* the handler's 500.
C6_RecordAndReraise ==
  \A t \in Tasks :
    req[t].pc = "done" =>
      /\ req[t].recorded /\ req[t].logged
      /\ req[t].status_code = req[t].response.status
      /\ req[t].handled = req[t].fault
      /\ req[t].fault # NoFault => req[t].response.status = 500

C6_Witness ==
  \E t, u \in Tasks :
    /\ req[t].pc = "done" /\ req[t].fault # NoFault /\ req[t].handled = req[t].fault
    /\ req[t].recorded /\ req[t].logged
    /\ req[u].pc = "done" /\ req[u].fault = NoFault /\ req[u].recorded

\* a request the trusted-host check answered itself
Rejected(q) ==
  /\ q.stages # <<>>
  /\ q.stages[Len(q.stages)] = "TrustedHostMiddleware"
  /\ q.response.status = 400

CorsConfigured == settings.CORS_ORIGINS # <<>> \/ settings.DEBUG

Configured(stage) ==
  CASE stage = "TrustedHostMiddleware" -> ~settings.DEBUG
    [] stage = "CORSMiddleware" -> CorsConfigured
    [] OTHER -> TRUE

\* C7 as stated: trusted-host check, CORS, gzip, instrumentation, route; a
\* request the trusted-host check rejects is not recorded.
C7_ClaimedOrder ==
  \A t \in Tasks :
    /\ IsPrefix(req[t].stages,
                SelectSeq(<<"TrustedHostMiddleware", "CORSMiddleware",
                            "GZipMiddleware", "add_metrics_and_logging", "route">>,
                          Configured))
    /\ (req[t].pc = "done" /\ Rejected(req[t])) => ~req[t].recorded

\* C7 (amended): a request passes the instrumentation middleware first, then
\* the trusted-host check (debug off), gzip, CORS (origins configured, or
\* debug on) and the route; a request the trusted-host check rejects has
\* been through the instrumentation middleware and is recorded with 400.
C7_Order ==
  \A t \in Tasks :
    /\ IsPrefix(req[t].stages,
                SelectSeq(<<"add_metrics_and_logging", "TrustedHostMiddleware",
                            "GZipMiddleware", "CORSMiddleware", "route">>,
                          Configured))
    /\ (req[t].pc = "done" /\ Rejected(req[t])) =>
         /\ req[t].recorded
         /\ req[t].status_code = 400
         /\ REQUEST_COUNT[<<req[t].method, req[t].path, 400>>] >= 1

C7_Witness ==
  \E t, u \in Tasks :
    /\ req[t].pc = "done"
    /\ req[t].stages = <<"add_metrics_and_logging", "TrustedHostMiddleware",
                         "GZipMiddleware", "CORSMiddleware", "route">>
    /\ req[u].pc = "done" /\ Rejected(req[u]) /\ req[u].recorded

\* C8: the shutdown hook run while no handle exists completes without
\* error, disconnects nothing and leaves the handle absent.
C8_ShutdownWithoutHandle ==
  [][(shutdown = "idle" /\ shutdown' # "idle" /\ _db = None) =>
       /\ shutdown' = "done"
       /\ _db' = None
       /\ databases' = databases
       /\ disconnect_calls' = disconnect_calls]_vars

C8_Witness ==
  /\ shutdown = "done" /\ startup = "idle"
  /\ _db = None /\ databases = <<>> /\ disconnect_calls = 0
  /\ \E t \in Tasks : req[t].pc = "done"

\* C9: at most one Database is ever constructed and connect() is called at
\* most once, whatever the interleaving of the startup hook and requests.
C9_SingleHandle ==
  /\ Len(databases) <= 1
  /\ connect_calls <= 1
  /\ \A t \in Tasks : req[t].db \in {None, _db}

C9_Witness ==
  /\ Len(databases) = 1 /\ connect_calls = 1 /\ startup = "done"
  /\ \E t, u \in Tasks :
       /\ t # u
       /\ req[t].db = 1 /\ req[u].db = 1
       /\ req[t].pc = "unwind" /\ req[u].pc = "unwind"

\* C10: until the shutdown hook has run, every handle a route received from
\* get_db is Connected, and no route that depends on it has answered 503.
C10_ConnectedBeforeShutdown ==
  shutdown = "idle" =>
    \A t \in Tasks :
      (req[t].pc \in {"unwind", "done"} /\ req[t].db # None) =>
        /\ databases[req[t].db].connected
        /\ req[t].response.status # 503

C10_Witness ==
  /\ shutdown = "idle"
  /\ \E t, u \in Tasks :
       /\ t # u
       /\ req[t].pc = "done" /\ req[t].db # None /\ req[t].response.status = 200
       /\ req[u].pc = "done" /\ req[u].db # None /\ req[u].response.status = 200
       /\ startup = "idle"

====
